---- MODULE Spec2Model ----
(***************************************************************************)
(* The pipeline execution and streaming subsystem of feedbackMaster: the   *)
(* Express handler of POST /run (src/server/index.js and the second copy   *)
(* of the server, src/unnamed/part_001), the child process it spawns, the  *)
(* four callbacks it registers on the child and the response they write.   *)
(*                                                                         *)
(* A JavaScript value is a record [t, v]: t is its type, v its payload.    *)
(* A JavaScript string is the sequence of its characters, so that trim()   *)
(* and truthiness are computed; a Buffer is a sequence of bytes and the    *)
(* text decoded from it a sequence of code points.                         *)
(***************************************************************************)
EXTENDS Integers, Sequences, FiniteSets, TLC

\* ------------------------------------------------------------------ bounds
NumRuns == 2    \* requests the server can hold at once
MaxOut  == 2    \* characters a child writes to stdout
MaxErr  == 2    \* characters a child writes to stderr
PipeCap == 2    \* bytes an OS pipe holds before write() blocks

Runs == 1..NumRuns

\* ------------------------------------------------------- JavaScript values
Undefined == [t |-> "undefined", v |-> <<>>]
Null      == [t |-> "null", v |-> 0]
Str(s)    == [t |-> "string", v |-> s]
Num(n)    == [t |-> "number", v |-> n]
Bool(b)   == [t |-> "boolean", v |-> IF b THEN <<"t", "r", "u", "e">>
                                          ELSE <<"f", "a", "l", "s", "e">>]

\* `x = d` in a destructuring pattern: the default replaces undefined only.
Default(x, d) == IF x.t = "undefined" THEN d ELSE x

\* ToBoolean of the values a multipart body carries (strings, or nothing).
Truthy(x) == x.t = "string" /\ x.v # <<>>

IsSpace(c) == c \in {" ", "\t", "\n"}

RECURSIVE TrimStart(_)
TrimStart(s) ==
  IF s # <<>> /\ IsSpace(Head(s)) THEN TrimStart(Tail(s)) ELSE s

RECURSIVE TrimEnd(_)
TrimEnd(s) ==
  IF s # <<>> /\ IsSpace(s[Len(s)]) THEN TrimEnd(SubSeq(s, 1, Len(s) - 1)) ELSE s

\* String.prototype.trim
Trim(s) == TrimEnd(TrimStart(s))

\* ---------------------------------------------------------------- UTF-8
\* Buffer.prototype.toString() decodes the chunk as UTF-8 by itself: a byte
\* that does not start or continue a well-formed sequence inside this chunk
\* becomes U+FFFD.  One- and two-byte sequences are modelled; the bytes of
\* the model stay below 0xE0.
IsCont(b)  == b >= 128 /\ b <= 191
IsLead2(b) == b >= 194 /\ b <= 223

RECURSIVE Utf8Decode(_)
Utf8Decode(bs) ==
  IF bs = <<>> THEN <<>>
  ELSE LET b == Head(bs) IN
    IF b < 128 THEN <<b>> \o Utf8Decode(Tail(bs))
    ELSE IF IsLead2(b) /\ Len(bs) >= 2 /\ IsCont(bs[2])
      THEN <<(b - 192) * 64 + (bs[2] - 128)>> \o Utf8Decode(SubSeq(bs, 3, Len(bs)))
      ELSE <<65533>> \o Utf8Decode(Tail(bs))

\* The bytes a process writes for a text, and the bytes a client gets back
\* from a decoded message.
RECURSIVE Utf8Encode(_)
Utf8Encode(cps) ==
  IF cps = <<>> THEN <<>>
  ELSE LET c == Head(cps) IN
    (IF c < 128 THEN <<c>>
     ELSE IF c < 2048 THEN <<192 + (c \div 64), 128 + (c % 64)>>
     ELSE <<224 + (c \div 4096), 128 + ((c \div 64) % 64), 128 + (c % 64)>>)
    \o Utf8Encode(Tail(cps))

\* data.toString()
BufferToString(data) == Utf8Decode(data)

SeqsUpTo(S, n) == UNION {[1..k -> S] : k \in 0..n}

RECURSIVE Concat(_)
Concat(ss) == IF ss = <<>> THEN <<>> ELSE Head(ss) \o Concat(Tail(ss))

\* ------------------------------------------------------------- the state
VARIABLES
  build,       \* which copy of the server runs
  pc,          \* pc[r]: where request r is: "idle", "rejected", "streaming"
  req,         \* req[r]: req.body and req.file.path as received
  args,        \* args[r]: the argument list handed to the pipeline
  spawnCount,  \* spawnCount[r]: calls of spawn made for request r
  child,       \* child[r]: the ChildProcess, its pipes and its program
  res,         \* res[r]: the ServerResponse and the calls made on it
  outRead,     \* outRead[r]: the chunks child.stdout has emitted as 'data'
  errRead,     \* errRead[r]: the chunks child.stderr has emitted as 'data'
  health,      \* the responses given to GET /healthz, in order
  formEpisodes, \* client: the episodes state, the entries of the form
  episodesStr, \* client: what convertEpisodesToRange last returned
  hgPc,        \* client: where handleGenerate is: "idle", "converted",
               \* "returned", "fetching", "reading", "done"
  sent,        \* client: the frames the server wrote on the response being read
  wire,        \* client: the text of the response not yet returned by reader.read()
  handled,     \* client: the data objects the read loop has parsed and handled
  isLoading,   \* client: the isLoading state
  formUrl,     \* client: the projectUrl state
  posted,      \* client: the form fields of each POST /run issued by fetch
  activeMenu,  \* client: the activeMenu state
  settings,    \* client: the seven option states that are persisted
  stored,      \* client: localStorage item 'appSettings'
  lastSaved    \* client: the option states as they were at the last save

serverVars == <<build, pc, req, args, spawnCount, child, res, outRead, errRead,
                health>>
formVars   == <<formUrl, posted, activeMenu, settings, stored, lastSaved>>
clientVars == <<formEpisodes, episodesStr, hgPc, sent, wire, handled, isLoading,
                formVars>>
vars == <<serverVars, clientVars>>

Builds == {"server/index.js", "unnamed/part_001"}

\* ----------------------------------------------------------- the response
NoRes ==
  [status |-> 0, contentType |-> "", body |-> "", log |-> <<>>,
   finished |-> FALSE, connected |-> TRUE]

\* A rejection that sets the status and leaves the response open.
ResJsonErrorOpen(rs) == [rs EXCEPT !.status = 400]

\* res.status(400).json({ error: ... })
ResJsonError(rs) ==
  [rs EXCEPT !.status = 400, !.contentType = "application/json",
             !.body = "projectUrl and episodes are required",
             !.finished = TRUE]

\* res.writeHead(200, { 'Content-Type': 'text/event-stream', ... })
ResWriteHead(rs) ==
  [rs EXCEPT !.status = 200, !.contentType = "text/event-stream"]

\* res.write(`data: ${JSON.stringify(frame)}\n\n`): a response that has been
\* ended refuses the frame (write after end); ok records whether it took it.
ResWrite(rs, frame) ==
  [rs EXCEPT !.log = Append(@, [op |-> "write", frame |-> frame,
                                ok |-> ~rs.finished])]

\* res.end()
ResEnd(rs) ==
  [rs EXCEPT !.log = Append(@, [op |-> "end", ok |-> ~rs.finished]),
             !.finished = TRUE]

\* The frames the response took, in the order written.
RECURSIVE Written(_)
Written(log) ==
  IF log = <<>> THEN <<>>
  ELSE IF Head(log).op = "write" /\ Head(log).ok
    THEN <<Head(log).frame>> \o Written(Tail(log))
    ELSE Written(Tail(log))

IsTerminal(f) == f.type \in {"complete", "error"}
IsData(f)     == f.type \in {"stdout", "stderr"}

\* ------------------------------------------------------------ the request
\* A validation that rejects only when both fields are missing.
IsRejectedBoth(projectUrl, episodes) == ~Truthy(projectUrl) /\ ~Truthy(episodes)

\* if (!projectUrl || !episodes)
IsRejected(projectUrl, episodes) == ~Truthy(projectUrl) \/ ~Truthy(episodes)

Flag(c) == Str(<<"-", c>>)

\* if (guidePath) args.push('-g', guidePath); the second copy of the server
\* adds: else args.push('-g', 'none')
GuideArgs(b, guidePath) ==
  IF Truthy(guidePath) THEN <<Flag("g"), guidePath>>
  ELSE IF b = "unnamed/part_001" THEN <<Flag("g"), Str(<<"n", "o", "n", "e">>)>>
  ELSE <<>>

\* A mapping that takes the default literal 'y' as enabled too.
SlackArgDefaultOn(slackEnabled) ==
  IF slackEnabled.t \in {"boolean", "string"}
     /\ slackEnabled.v \in {<<"t", "r", "u", "e">>, <<"y">>}
  THEN Str(<<"y">>) ELSE Str(<<"n">>)

\* slackEnabled === true || slackEnabled === 'true' ? 'y' : 'n'
SlackArg(slackEnabled) ==
  IF \/ (slackEnabled.t = "boolean" /\ slackEnabled.v = <<"t", "r", "u", "e">>)
     \/ (slackEnabled.t = "string" /\ slackEnabled.v = <<"t", "r", "u", "e">>)
  THEN Str(<<"y">>) ELSE Str(<<"n">>)

\* if (slackTemplate && slackTemplate.trim()) args.push('-t', slackTemplate)
TemplateArgs(slackTemplate) ==
  IF Truthy(slackTemplate) /\ Trim(slackTemplate.v) # <<>>
  THEN <<Flag("t"), slackTemplate>> ELSE <<>>

BuildArgs(b, projectUrl, episodes, guidePath, slackEnabled, slackTemplate) ==
  <<Flag("u"), projectUrl, Flag("e"), episodes>>
    \o GuideArgs(b, guidePath)
    \o <<Flag("s"), SlackArg(slackEnabled)>>
    \o TemplateArgs(slackTemplate)

\* ------------------------------------------------------------- the child
NoChild ==
  [state |-> "none", errno |-> 0, out |-> <<>>, outTodo |-> <<>>,
   errTodo |-> <<>>, outPipe |-> <<>>, errPipe |-> <<>>,
   outEnded |-> FALSE, errEnded |-> FALSE, exitCode |-> Null,
   signalCode |-> Null, errorEmitted |-> FALSE, closeEmitted |-> FALSE]

\* spawn('conda', [...]): either the process starts, and will write the text
\* oc.out to stdout and oc.err to stderr, or it cannot be started and the
\* ChildProcess reports oc.errno.
Spawn(oc) ==
  IF oc.ok
  THEN [NoChild EXCEPT !.state = "running", !.out = Utf8Encode(oc.out),
                       !.outTodo = Utf8Encode(oc.out),
                       !.errTodo = Utf8Encode(oc.err)]
  ELSE [NoChild EXCEPT !.state = "failed", !.errno = oc.errno,
                       !.exitCode = Num(oc.errno)]

\* Listening to 'exit' instead: fires as soon as the process has ended.
CloseOnExit(c) ==
  \/ c.state = "exited"
  \/ c.state = "failed" /\ c.errorEmitted

\* child.on('close', ...) fires once the process has ended and both of its
\* output streams have closed; when the process could not be started, after
\* 'error'.
CloseReady(c) ==
  \/ c.state = "exited" /\ c.outEnded /\ c.errEnded
  \/ c.state = "failed" /\ c.errorEmitted

ErrorMessage(errno) ==
  IF errno = -2 THEN "spawn conda ENOENT" ELSE "spawn conda EACCES"

\* ------------------------------------------------------------ the frames
\* success: !code
CompleteFrameFalsy(code) ==
  [type |-> "complete", exitCode |-> code,
   success |-> (code.t = "null" \/ code.v = 0),
   message |-> IF code.t = "number" /\ code.v = 0
               THEN "pipeline completed successfully"
               ELSE "an error occurred while running the pipeline"]

CompleteFrame(code) ==
  [type |-> "complete", exitCode |-> code,
   success |-> (code.t = "number" /\ code.v = 0),
   message |-> IF code.t = "number" /\ code.v = 0
               THEN "pipeline completed successfully"
               ELSE "an error occurred while running the pipeline"]

ErrorFrame(error) ==
  [type |-> "error", message |-> <<"pipeline execution error: ", error>>]

\* ---------------------------------------------------------- the callbacks
\* child.stdout.on('data', ...)
OnStdoutData(rs, data) ==
  ResWrite(rs, [type |-> "stdout", message |-> BufferToString(data)])

\* The stderr listener pasted from the stdout one with its tag unchanged.
OnStderrDataAsStdout(rs, data) ==
  ResWrite(rs, [type |-> "stdout", message |-> BufferToString(data)])

\* child.stderr.on('data', ...)
OnStderrData(rs, data) ==
  ResWrite(rs, [type |-> "stderr", message |-> BufferToString(data)])

\* child.on('close', ...)
\* A 'close' listener that does not end the response.
OnCloseNoEnd(rs, code) == ResWrite(rs, CompleteFrame(code))

\* child.on('close', ...)
OnClose(rs, code) == ResEnd(ResWrite(rs, CompleteFrame(code)))

\* An 'error' listener that does not end the response.
OnErrorNoEnd(rs, error) == ResWrite(rs, ErrorFrame(error))

\* An 'error' listener that reports the failure as a completed run.
OnErrorAsComplete(rs, error) == ResEnd(ResWrite(rs, CompleteFrame(Num(1))))

\* child.on('error', ...)
OnError(rs, error) == ResEnd(ResWrite(rs, ErrorFrame(error)))

\* ------------------------------------------------------------ the actions
ServerInit ==
  /\ build \in Builds
  /\ pc = [r \in Runs |-> "idle"]
  /\ req = [r \in Runs |-> [body |-> [projectUrl |-> Undefined,
                                      episodes |-> Undefined,
                                      slackEnabled |-> Undefined,
                                      slackTemplate |-> Undefined],
                            filePath |-> Undefined]]
  /\ args = [r \in Runs |-> <<>>]
  /\ spawnCount = [r \in Runs |-> 0]
  /\ child = [r \in Runs |-> NoChild]
  /\ res = [r \in Runs |-> NoRes]
  /\ outRead = [r \in Runs |-> <<>>]
  /\ errRead = [r \in Runs |-> <<>>]
  /\ health = <<>>

\* app.post('/run', upload.single('guideDocument'), (req, res) => ...)
Request(r, body, filePath, oc) ==
  /\ pc[r] = "idle"
  /\ req' = [req EXCEPT ![r] = [body |-> body, filePath |-> filePath]]
  /\ LET projectUrl    == Default(body.projectUrl, Str(<<>>))
         episodes      == Default(body.episodes, Str(<<>>))
         slackEnabled  == Default(body.slackEnabled, Str(<<"y">>))
         slackTemplate == Default(body.slackTemplate, Str(<<>>))
         guidePath     == Default(filePath, Str(<<>>))
     IN IF IsRejected(projectUrl, episodes)
        THEN /\ res' = [res EXCEPT ![r] = ResJsonError(@)]
             /\ pc' = [pc EXCEPT ![r] = "rejected"]
             /\ UNCHANGED <<args, spawnCount, child>>
        ELSE /\ args' = [args EXCEPT ![r] =
                    BuildArgs(build, projectUrl, episodes, guidePath,
                              slackEnabled, slackTemplate)]
             /\ res' = [res EXCEPT ![r] = ResWriteHead(@)]
             /\ spawnCount' = [spawnCount EXCEPT ![r] = @ + 1]
             /\ child' = [child EXCEPT ![r] = Spawn(oc)]
             /\ pc' = [pc EXCEPT ![r] = "streaming"]
  /\ UNCHANGED <<build, outRead, errRead>>
  /\ UNCHANGED <<health, clientVars>>

\* The process writes the next byte of its output to its stdout pipe; the
\* write blocks while the pipe is full.
ChildWriteOut(r) ==
  /\ child[r].state = "running"
  /\ child[r].outTodo # <<>>
  /\ Len(child[r].outPipe) < PipeCap
  /\ child' = [child EXCEPT ![r].outPipe = Append(@, Head(child[r].outTodo)),
                            ![r].outTodo = Tail(@)]
  /\ UNCHANGED <<build, pc, req, args, spawnCount, res, outRead, errRead>>
  /\ UNCHANGED <<health, clientVars>>

ChildWriteErr(r) ==
  /\ child[r].state = "running"
  /\ child[r].errTodo # <<>>
  /\ Len(child[r].errPipe) < PipeCap
  /\ child' = [child EXCEPT ![r].errPipe = Append(@, Head(child[r].errTodo)),
                            ![r].errTodo = Tail(@)]
  /\ UNCHANGED <<build, pc, req, args, spawnCount, res, outRead, errRead>>
  /\ UNCHANGED <<health, clientVars>>

\* The process ends, by exit(code) or killed by a signal, having written
\* all it had to write.
ChildExit(r, code, signal) ==
  /\ child[r].state = "running"
  /\ child[r].outTodo = <<>>
  /\ child[r].errTodo = <<>>
  /\ child' = [child EXCEPT ![r].state = "exited", ![r].exitCode = code,
                            ![r].signalCode = signal]
  /\ UNCHANGED <<build, pc, req, args, spawnCount, res, outRead, errRead>>
  /\ UNCHANGED <<health, clientVars>>

\* A stdout listener that writes to the response of the other request, as
\* with a response kept in a variable shared by the requests.
StdoutDataShared(r, n) ==
  /\ child[r].state \in {"running", "exited"}
  /\ n \in 1..Len(child[r].outPipe)
  /\ LET data == SubSeq(child[r].outPipe, 1, n) IN
       /\ res' = [res EXCEPT ![3 - r] = OnStdoutData(@, data)]
       /\ outRead' = [outRead EXCEPT ![r] = Append(@, data)]
  /\ child' = [child EXCEPT ![r].outPipe = SubSeq(@, n + 1, Len(@))]
  /\ UNCHANGED <<build, pc, req, args, spawnCount, errRead>>
  /\ UNCHANGED <<health, clientVars>>

\* child.stdout emits 'data' with the first n bytes waiting in the pipe.
StdoutData(r, n) ==
  /\ child[r].state \in {"running", "exited"}
  /\ n \in 1..Len(child[r].outPipe)
  /\ LET data == SubSeq(child[r].outPipe, 1, n) IN
       /\ res' = [res EXCEPT ![r] = OnStdoutData(@, data)]
       /\ outRead' = [outRead EXCEPT ![r] = Append(@, data)]
  /\ child' = [child EXCEPT ![r].outPipe = SubSeq(@, n + 1, Len(@))]
  /\ UNCHANGED <<build, pc, req, args, spawnCount, errRead>>
  /\ UNCHANGED <<health, clientVars>>

\* stderr drained only once stdout has reached its end.
StderrAfterStdout(r, n) ==
  /\ child[r].outEnded
  /\ child[r].state \in {"running", "exited"}
  /\ n \in 1..Len(child[r].errPipe)
  /\ LET data == SubSeq(child[r].errPipe, 1, n) IN
       /\ res' = [res EXCEPT ![r] = OnStderrData(@, data)]
       /\ errRead' = [errRead EXCEPT ![r] = Append(@, data)]
  /\ child' = [child EXCEPT ![r].errPipe = SubSeq(@, n + 1, Len(@))]
  /\ UNCHANGED <<build, pc, req, args, spawnCount, outRead>>
  /\ UNCHANGED <<health, clientVars>>

\* child.stderr emits 'data' with the first n bytes waiting in the pipe.
StderrData(r, n) ==
  /\ child[r].state \in {"running", "exited"}
  /\ n \in 1..Len(child[r].errPipe)
  /\ LET data == SubSeq(child[r].errPipe, 1, n) IN
       /\ res' = [res EXCEPT ![r] = OnStderrData(@, data)]
       /\ errRead' = [errRead EXCEPT ![r] = Append(@, data)]
  /\ child' = [child EXCEPT ![r].errPipe = SubSeq(@, n + 1, Len(@))]
  /\ UNCHANGED <<build, pc, req, args, spawnCount, outRead>>
  /\ UNCHANGED <<health, clientVars>>

\* child.stdout reaches end of input: the process is gone and the pipe empty.
StdoutEnd(r) ==
  /\ child[r].state = "exited"
  /\ child[r].outPipe = <<>>
  /\ ~child[r].outEnded
  /\ child' = [child EXCEPT ![r].outEnded = TRUE]
  /\ UNCHANGED <<build, pc, req, args, spawnCount, res, outRead, errRead>>
  /\ UNCHANGED <<health, clientVars>>

StderrEnd(r) ==
  /\ child[r].state = "exited"
  /\ child[r].errPipe = <<>>
  /\ ~child[r].errEnded
  /\ child' = [child EXCEPT ![r].errEnded = TRUE]
  /\ UNCHANGED <<build, pc, req, args, spawnCount, res, outRead, errRead>>
  /\ UNCHANGED <<health, clientVars>>

\* The ChildProcess emits 'error': the process could not be started.
ChildError(r) ==
  /\ child[r].state = "failed"
  /\ ~child[r].errorEmitted
  /\ res' = [res EXCEPT ![r] = OnError(@, ErrorMessage(child[r].errno))]
  /\ child' = [child EXCEPT ![r].errorEmitted = TRUE]
  /\ UNCHANGED <<build, pc, req, args, spawnCount, outRead, errRead>>
  /\ UNCHANGED <<health, clientVars>>

\* The ChildProcess emits 'close' with its exit code.
\* A 'close' listener that starts the pipeline again when it failed.
ChildCloseRetry(r) ==
  /\ CloseReady(child[r])
  /\ ~child[r].closeEmitted
  /\ res' = [res EXCEPT ![r] = OnClose(@, child[r].exitCode)]
  /\ child' = [child EXCEPT ![r].closeEmitted = TRUE]
  /\ spawnCount' = [spawnCount EXCEPT ![r] =
                      IF child[r].exitCode = Num(0) THEN @ ELSE @ + 1]
  /\ UNCHANGED <<build, pc, req, args, outRead, errRead>>
  /\ UNCHANGED <<health, clientVars>>

\* child.on('close', ...) fires
ChildClose(r) ==
  /\ CloseReady(child[r])
  /\ ~child[r].closeEmitted
  /\ res' = [res EXCEPT ![r] = OnClose(@, child[r].exitCode)]
  /\ child' = [child EXCEPT ![r].closeEmitted = TRUE]
  /\ UNCHANGED <<build, pc, req, args, spawnCount, outRead, errRead>>
  /\ UNCHANGED <<health, clientVars>>

\* A handler with req.on('close', () => child.kill()).
ClientDropKills(r) ==
  /\ pc[r] = "streaming"
  /\ res[r].connected
  /\ ~res[r].finished
  /\ res' = [res EXCEPT ![r].connected = FALSE]
  /\ child' = [child EXCEPT ![r] =
                 IF @.state = "running"
                 THEN [@ EXCEPT !.state = "exited", !.outTodo = <<>>,
                                !.errTodo = <<>>,
                                !.signalCode = Str(<<"SIGTERM">>)]
                 ELSE @]
  /\ UNCHANGED <<build, pc, req, args, spawnCount, outRead, errRead>>
  /\ UNCHANGED <<health, clientVars>>

\* The client goes away while the run is streaming.  The handler registers
\* no listener for it.
ClientDrop(r) ==
  /\ pc[r] = "streaming"
  /\ res[r].connected
  /\ ~res[r].finished
  /\ res' = [res EXCEPT ![r].connected = FALSE]
  /\ UNCHANGED <<build, pc, req, args, spawnCount, child, outRead, errRead>>
  /\ UNCHANGED <<health, clientVars>>

MaxProbes == 2    \* GET /healthz requests answered

\* res.json({ ok: true })
HealthResponse == [status |-> 200, contentType |-> "application/json", ok |-> TRUE]

\* A probe that also ends the responses of the runs.
HealthzEndsRuns ==
  /\ Len(health) < MaxProbes
  /\ health' = Append(health, HealthResponse)
  /\ res' = [r \in Runs |-> IF pc[r] = "streaming" THEN ResEnd(res[r]) ELSE res[r]]
  /\ UNCHANGED <<build, pc, req, args, spawnCount, child, outRead, errRead>>
  /\ UNCHANGED clientVars

\* app.get('/healthz', (_, res) => res.json({ ok: true }))
Healthz ==
  /\ Len(health) < MaxProbes
  /\ health' = Append(health, HealthResponse)
  /\ UNCHANGED <<build, pc, req, args, spawnCount, child, res, outRead, errRead>>
  /\ UNCHANGED clientVars

\* ------------------------------------------------------------- the client
\* The client of src/src/App.js: the episode entries and their conversion to
\* a range expression, and the loop of handleGenerate that reads the
\* response.  A string is the sequence of its characters.

MaxEntries == 3    \* episode entries in the form
MaxEpisode == 3    \* the largest one-digit episode number entered
MaxFrames  == 1    \* output events in a response before its terminal event

Digits == <<"0", "1", "2", "3", "4", "5", "6", "7", "8", "9">>
IsDigit(c) == \E d \in 1..10 : Digits[d] = c
DigitVal(c) == (CHOOSE d \in 1..10 : Digits[d] = c) - 1

NaN       == [nan |-> TRUE, n |-> 0]
Number(n) == [nan |-> FALSE, n |-> n]

RECURSIVE DigitPrefix(_)
DigitPrefix(s) ==
  IF s # <<>> /\ IsDigit(Head(s)) THEN <<Head(s)>> \o DigitPrefix(Tail(s)) ELSE <<>>

RECURSIVE DigitsValue(_)
DigitsValue(ds) ==
  IF ds = <<>> THEN 0
  ELSE DigitsValue(SubSeq(ds, 1, Len(ds) - 1)) * 10 + DigitVal(ds[Len(ds)])

\* parseInt(s): leading white space, a sign, then the longest run of decimal
\* digits; NaN when there is none.  (No entry of the model starts with 0x.)
ParseInt(s) ==
  LET t   == TrimStart(s)
      neg == t # <<>> /\ Head(t) = "-"
      u   == IF t # <<>> /\ Head(t) \in {"-", "+"} THEN Tail(t) ELSE t
      ds  == DigitPrefix(u)
  IN IF ds = <<>> THEN NaN
     ELSE Number(IF neg THEN 0 - DigitsValue(ds) ELSE DigitsValue(ds))

\* `${n}` for n >= 0
RECURSIVE ToDecimal(_)
ToDecimal(n) ==
  IF n < 10 THEN <<Digits[n + 1]>>
  ELSE ToDecimal(n \div 10) \o <<Digits[(n % 10) + 1]>>

RECURSIVE InsertAsc(_, _)
InsertAsc(x, xs) ==
  IF xs = <<>> THEN <<x>>
  ELSE IF x < Head(xs) THEN <<x>> \o xs
  ELSE <<Head(xs)>> \o InsertAsc(x, Tail(xs))

\* .sort((a, b) => a - b)
RECURSIVE SortAsc(_)
SortAsc(xs) == IF xs = <<>> THEN <<>> ELSE InsertAsc(Head(xs), SortAsc(Tail(xs)))

\* A token that writes a run with the number after its end.
RangeTokenPastEnd(start, end) ==
  IF start = end THEN ToDecimal(start)
  ELSE ToDecimal(start) \o <<"-">> \o ToDecimal(end + 1)

\* start === end ? `${start}` : `${start}-${end}`
RangeToken(start, end) ==
  IF start = end THEN ToDecimal(start)
  ELSE ToDecimal(start) \o <<"-">> \o ToDecimal(end)

\* The for loop of convertEpisodesToRange from index i on, and the push that
\* follows it.
RECURSIVE RangesFrom(_, _, _, _, _)
RangesFrom(validNumbers, i, start, end, ranges) ==
  IF i > Len(validNumbers) THEN Append(ranges, RangeToken(start, end))
  ELSE IF validNumbers[i] = end + 1
    THEN RangesFrom(validNumbers, i + 1, start, validNumbers[i], ranges)
    ELSE RangesFrom(validNumbers, i + 1, validNumbers[i], validNumbers[i],
                    Append(ranges, RangeToken(start, end)))

\* ranges.join(',')
RECURSIVE Join(_, _)
Join(ss, sep) ==
  IF ss = <<>> THEN <<>>
  ELSE IF Len(ss) = 1 THEN ss[1]
  ELSE ss[1] \o <<sep>> \o Join(Tail(ss), sep)

\* episodes.map(ep => parseInt((ep || '').trim()))
\*         .filter(num => !isNaN(num) && num > 0).sort((a, b) => a - b)
ValidNumbers(eps) ==
  LET parsed == [i \in 1..Len(eps) |-> ParseInt(Trim(eps[i]))]
      kept   == SelectSeq(parsed, LAMBDA x : ~x.nan /\ x.n > 0)
  IN SortAsc([i \in 1..Len(kept) |-> kept[i].n])

convertEpisodesToRange(eps) ==
  LET validNumbers == ValidNumbers(eps) IN
    IF Len(validNumbers) = 0 THEN <<>>
    ELSE Join(RangesFrom(validNumbers, 2, validNumbers[1], validNumbers[1], <<>>), ",")

\* const episodesStr = convertEpisodesToRange(episodes)
ConvertEpisodes ==
  /\ hgPc = "idle"
  /\ episodesStr' = convertEpisodesToRange(formEpisodes)
  /\ hgPc' = "converted"
  /\ UNCHANGED <<formEpisodes, sent, wire, handled, isLoading, formVars>>
  /\ UNCHANGED serverVars

\* ------------------------------------------------ the client's read loop
\* JSON.stringify(frame), as far as the client looks at it: the braces, the
\* type and, for a complete event, success.
JsonStringify(frame) ==
  <<"{", frame.type>>
    \o (IF frame.type = "complete"
        THEN <<IF frame.success THEN "true" ELSE "false">> ELSE <<>>)
    \o <<"}">>

\* `data: ${JSON.stringify(frame)}\n\n`
FrameText(frame) ==
  <<"d", "a", "t", "a", ":", " ">> \o JsonStringify(frame) \o <<"\n", "\n">>

RECURSIVE ResponseText(_)
ResponseText(frames) ==
  IF frames = <<>> THEN <<>>
  ELSE FrameText(Head(frames)) \o ResponseText(Tail(frames))

\* chunk.split('\n')
RECURSIVE SplitLines(_, _)
SplitLines(chunk, line) ==
  IF chunk = <<>> THEN <<line>>
  ELSE IF Head(chunk) = "\n" THEN <<line>> \o SplitLines(Tail(chunk), <<>>)
  ELSE SplitLines(Tail(chunk), Append(line, Head(chunk)))

\* line.startsWith('data: ')
StartsWithData(line) ==
  Len(line) >= 6 /\ SubSeq(line, 1, 6) = <<"d", "a", "t", "a", ":", " ">>

\* JSON.parse(text) succeeds on a whole object only; a part of one throws.
JsonParses(text) ==
  /\ Len(text) \in {3, 4}
  /\ text[1] = "{" /\ text[Len(text)] = "}"
  /\ text[2] \notin {"{", "}"}
  /\ Len(text) = 4 => text[3] \in {"true", "false"}

JsonParse(text) ==
  [type |-> text[2], success |-> (Len(text) = 4 /\ text[3] = "true")]

\* The body of `for (const line of lines)`: the data objects handled.
RECURSIVE HandleLines(_)
HandleLines(lines) ==
  IF lines = <<>> THEN <<>>
  ELSE LET line == Head(lines) IN
    (IF StartsWithData(line) /\ JsonParses(SubSeq(line, 7, Len(line)))
     THEN <<JsonParse(SubSeq(line, 7, Len(line)))>> ELSE <<>>)
    \o HandleLines(Tail(lines))

\* const { done, value } = await reader.read() with done false: the next n
\* characters of the response, split into lines and handled.
ReaderRead(n) ==
  /\ hgPc = "reading"
  /\ n \in 1..Len(wire)
  /\ LET chunk == SubSeq(wire, 1, n)
         data  == HandleLines(SplitLines(chunk, <<>>))
     IN /\ handled' = handled \o data
        /\ isLoading' = IF \E i \in 1..Len(data) : data[i].type \in {"complete", "error"}
                        THEN FALSE ELSE isLoading
  /\ wire' = SubSeq(wire, n + 1, Len(wire))
  /\ UNCHANGED <<formEpisodes, episodesStr, hgPc, sent, formVars>>
  /\ UNCHANGED serverVars

\* reader.read() with done true: break
ReaderDone ==
  /\ hgPc = "reading"
  /\ wire = <<>>
  /\ hgPc' = "done"
  /\ UNCHANGED <<formEpisodes, episodesStr, sent, wire, handled, isLoading, formVars>>
  /\ UNCHANGED serverVars

\* ------------------------------------------------------- handleGenerate
\* A check of projectUrl that does not trim it.
UrlMissingNoTrim(url) == url = <<>>

\* !projectUrl.trim()
UrlMissing(url) == Trim(url) = <<>>

\* The fields appended to the FormData; append turns the boolean
\* slackEnabled into 'true' or 'false'.
FormDataOf(url, str, st) ==
  [projectUrl |-> Str(url), episodes |-> Str(str),
   slackEnabled |-> Str(st.slackEnabled.v), slackTemplate |-> st.slackTemplate]

\* handleGenerate up to the await of fetch; confirmed is the answer to
\* window.confirm.
HandleGenerate(confirmed) ==
  /\ hgPc = "idle"
  /\ IF UrlMissing(formUrl)
     THEN /\ hgPc' = "returned"
          /\ UNCHANGED <<episodesStr, isLoading, posted>>
     ELSE LET str == convertEpisodesToRange(formEpisodes) IN
          /\ episodesStr' = str
          /\ IF str = <<>> \/ ~confirmed
             THEN /\ hgPc' = "returned"
                  /\ UNCHANGED <<isLoading, posted>>
             ELSE /\ isLoading' = TRUE
                  /\ posted' = Append(posted, FormDataOf(formUrl, str, settings))
                  /\ hgPc' = "fetching"
  /\ UNCHANGED <<formEpisodes, sent, wire, handled>>
  /\ UNCHANGED <<formUrl, activeMenu, settings, stored, lastSaved>>
  /\ UNCHANGED serverVars

\* catch (error) { setIsLoading(false); alert(...) }
CatchError ==
  /\ isLoading' = FALSE
  /\ hgPc' = "done"

\* fetch rejects: the request did not get a response.
FetchRejects ==
  /\ hgPc = "fetching"
  /\ CatchError
  /\ UNCHANGED <<formEpisodes, episodesStr, sent, wire, handled, formVars>>
  /\ UNCHANGED serverVars

\* fetch resolves with a response: a status that is not ok is thrown, an
\* event stream is read, any other body is taken as JSON.
FetchResolves(response) ==
  /\ hgPc = "fetching"
  /\ IF response.status \notin 200..299
     THEN CatchError /\ UNCHANGED <<sent, wire>>
     ELSE IF response.contentType = "text/event-stream"
     THEN /\ hgPc' = "reading"
          /\ sent' = response.frames
          /\ wire' = ResponseText(response.frames)
          /\ UNCHANGED isLoading
     ELSE /\ isLoading' = FALSE
          /\ hgPc' = "done"
          /\ UNCHANGED <<sent, wire>>
  /\ UNCHANGED <<formEpisodes, episodesStr, handled, formVars>>
  /\ UNCHANGED serverVars

\* reader.read() rejects: the connection broke while the response was read.
ReaderRejects ==
  /\ hgPc = "reading"
  /\ CatchError
  /\ UNCHANGED <<formEpisodes, episodesStr, sent, wire, handled, formVars>>
  /\ UNCHANGED serverVars

\* ------------------------------------------------ the forms of the client
EpisodeLimit == 5    \* addEpisode adds no entry beyond this many

\* JSON.stringify of a string, a number or a boolean, as characters.
RECURSIVE JsonEscape(_)
JsonEscape(cs) ==
  IF cs = <<>> THEN <<>>
  ELSE (IF Head(cs) = "\n" THEN <<"\\", "n">>
        ELSE IF Head(cs) \in {"\"", "\\"} THEN <<"\\", Head(cs)>>
        ELSE <<Head(cs)>>) \o JsonEscape(Tail(cs))

RECURSIVE JsonUnescape(_)
JsonUnescape(cs) ==
  IF cs = <<>> THEN <<>>
  ELSE IF Head(cs) = "\\"
    THEN <<IF cs[2] = "n" THEN "\n" ELSE cs[2]>> \o JsonUnescape(Tail(Tail(cs)))
    ELSE <<Head(cs)>> \o JsonUnescape(Tail(cs))

JsonValueText(x) ==
  IF x.t = "string" THEN <<"\"">> \o JsonEscape(x.v) \o <<"\"">>
  ELSE IF x.t = "number"
    THEN (IF x.v < 0 THEN <<"-">> \o ToDecimal(0 - x.v) ELSE ToDecimal(x.v))
  ELSE x.v

\* JSON.parse of such a text
JsonValueParse(text) ==
  IF Head(text) = "\"" THEN Str(JsonUnescape(SubSeq(text, 2, Len(text) - 1)))
  ELSE IF Head(text) = "t" THEN Bool(TRUE)
  ELSE IF Head(text) = "f" THEN Bool(FALSE)
  ELSE Num(ParseInt(text).n)

SettingsKeys ==
  {"scoringMethod", "scoringSheetUrl", "tagMethod", "tagSheetUrl",
   "slackEnabled", "slackTemplate", "unreadAlertCount"}

\* JSON.stringify(settings): the text of each member of the object
SettingsStringify(st) == Str([k \in SettingsKeys |-> JsonValueText(st[k])])

\* JSON.parse(saved)
SettingsParse(item) == [k \in SettingsKeys |-> JsonValueParse(item.v[k])]

\* The settings loadSavedSettings returns when nothing is stored.
DefaultSettings ==
  [scoringMethod |-> Str(<<"f", "i", "l", "e">>), scoringSheetUrl |-> Str(<<>>),
   tagMethod |-> Str(<<"f", "i", "l", "e">>), tagSheetUrl |-> Str(<<>>),
   slackEnabled |-> Bool(TRUE),
   slackTemplate |-> Str(<<"d", "o", "n", "e", ".", "\n", "\n", "{", "s", "}">>),
   unreadAlertCount |-> Num(3)]

\* localStorage.getItem('appSettings'); if (saved) JSON.parse(saved), else
\* the defaults
loadSavedSettings == IF stored.t = "null" THEN DefaultSettings ELSE SettingsParse(stored)

\* x || d for a number x
NumberOr(x, d) == IF x.nan \/ x.n = 0 THEN d ELSE x.n

\* The states set from saved settings: useState(savedSettings...) and
\* resetSettingsForm
SettingsFrom(saved) ==
  [saved EXCEPT !.unreadAlertCount = Num(NumberOr(Number(@.v), 3))]

\* A count taken as typed.
AlertCountTypedRaw(value) ==
  Num(IF ParseInt(value).nan THEN 1 ELSE ParseInt(value).n)

\* parseInt(e.target.value) || 1
AlertCountTyped(value) == Num(NumberOr(ParseInt(value), 1))

resetCommentForm ==
  /\ formUrl' = <<>>
  /\ formEpisodes' = <<<<>>>>

resetSettingsForm == settings' = SettingsFrom(loadSavedSettings)

\* handleMenuClick(menuKey)
HandleMenuClick(menuKey) ==
  /\ IF menuKey = "comment"
       THEN resetCommentForm /\ UNCHANGED settings
     ELSE IF menuKey = "settings"
       THEN resetSettingsForm /\ UNCHANGED <<formUrl, formEpisodes>>
     ELSE UNCHANGED <<formUrl, formEpisodes, settings>>
  /\ activeMenu' = menuKey
  /\ UNCHANGED <<episodesStr, hgPc, sent, wire, handled, isLoading>>
  /\ UNCHANGED <<posted, stored, lastSaved>>
  /\ UNCHANGED serverVars

\* handleSaveSettings
HandleSaveSettings ==
  /\ stored' = SettingsStringify(settings)
  /\ lastSaved' = settings
  /\ UNCHANGED <<formEpisodes, episodesStr, hgPc, sent, wire, handled, isLoading>>
  /\ UNCHANGED <<formUrl, posted, activeMenu, settings>>
  /\ UNCHANGED serverVars

\* The onChange handlers of the option inputs: setScoringMethod, ...,
\* setSlackTemplate with the value given, setUnreadAlertCount with the count
\* typed.
SetOption(key, value) ==
  /\ settings' = [settings EXCEPT ![key] = value]
  /\ UNCHANGED <<formEpisodes, episodesStr, hgPc, sent, wire, handled, isLoading>>
  /\ UNCHANGED <<formUrl, posted, activeMenu, stored, lastSaved>>
  /\ UNCHANGED serverVars

SetUnreadAlertCount(value) == SetOption("unreadAlertCount", AlertCountTyped(value))

\* setProjectUrl(e.target.value)
SetProjectUrl(value) ==
  /\ formUrl' = value
  /\ UNCHANGED <<formEpisodes, episodesStr, hgPc, sent, wire, handled, isLoading>>
  /\ UNCHANGED <<posted, activeMenu, settings, stored, lastSaved>>
  /\ UNCHANGED serverVars

addEpisode ==
  /\ formEpisodes' = IF Len(formEpisodes) < EpisodeLimit
                     THEN Append(formEpisodes, <<>>) ELSE formEpisodes
  /\ UNCHANGED <<episodesStr, hgPc, sent, wire, handled, isLoading, formVars>>
  /\ UNCHANGED serverVars

\* A removal that has no lower limit.
removeEpisodeAny(index) ==
  /\ index \in 0..(Len(formEpisodes) - 1)
  /\ formEpisodes' = [i \in 1..(Len(formEpisodes) - 1) |->
                        IF i <= index THEN formEpisodes[i] ELSE formEpisodes[i + 1]]
  /\ UNCHANGED <<episodesStr, hgPc, sent, wire, handled, isLoading, formVars>>
  /\ UNCHANGED serverVars

\* removeEpisode(index), index counted from 0
removeEpisode(index) ==
  /\ index \in 0..(Len(formEpisodes) - 1)
  /\ formEpisodes' =
       IF Len(formEpisodes) > 1
       THEN [i \in 1..(Len(formEpisodes) - 1) |->
               IF i <= index THEN formEpisodes[i] ELSE formEpisodes[i + 1]]
       ELSE formEpisodes
  /\ UNCHANGED <<episodesStr, hgPc, sent, wire, handled, isLoading, formVars>>
  /\ UNCHANGED serverVars

\* updateEpisode(index, value), index counted from 0
updateEpisode(index, value) ==
  /\ index \in 0..(Len(formEpisodes) - 1)
  /\ formEpisodes' = [formEpisodes EXCEPT ![index + 1] = value]
  /\ UNCHANGED <<episodesStr, hgPc, sent, wire, handled, isLoading, formVars>>
  /\ UNCHANGED serverVars

\* The forms before anything is typed, nothing stored.
FormInit ==
  /\ formUrl = <<>>
  /\ posted = <<>>
  /\ activeMenu = "comment"
  /\ stored = Null
  /\ settings = SettingsFrom(DefaultSettings)
  /\ lastSaved = SettingsFrom(DefaultSettings)

\* The client before handleGenerate is called.
ClientInit ==
  /\ formEpisodes = <<<<>>>>
  /\ episodesStr = <<>>
  /\ hgPc = "idle"
  /\ sent = <<>>
  /\ wire = <<>>
  /\ handled = <<>>
  /\ isLoading = FALSE
  /\ FormInit

Init == ServerInit /\ ClientInit

\* ------------------------------------------------------- specifications
MaxExit == 2    \* the largest exit code a child ends with

OutChars == {97, 233}    \* 'a' (one byte) and U+00E9 (two bytes: C3 A9)
ErrChars == {101}        \* 'e'

SpawnOutcomes ==
  {[ok |-> TRUE, out |-> o, err |-> e, errno |-> 0] :
      o \in SeqsUpTo(OutChars, MaxOut), e \in SeqsUpTo(ErrChars, MaxErr)}
  \cup {[ok |-> FALSE, out |-> <<>>, err |-> <<>>, errno |-> n] : n \in {-2, -13}}

\* How a process ends: exit(c), or killed by a signal (code null).
Exits ==
  {[code |-> Num(c), signal |-> Null] : c \in 0..MaxExit}
  \cup {[code |-> Null, signal |-> Str(<<"SIGKILL">>)]}

\* The bodies that decide validation; the notification fields as the client
\* sends them.
RunBodies ==
  {[projectUrl |-> u, episodes |-> e, slackEnabled |-> Str(<<"t", "r", "u", "e">>),
    slackTemplate |-> Str(<<>>)] :
      u \in {Undefined, Str(<<>>), Str(<<"u">>)},
      e \in {Undefined, Str(<<>>), Str(<<"1", "-", "3">>)}}

\* What a child that fills a pipe writes: up to one byte more than a pipe
\* holds, to either stream.
LiveOutcomes ==
  {[ok |-> TRUE, out |-> [i \in 1..k |-> 97], err |-> [i \in 1..m |-> 101],
    errno |-> 0] : k \in 0..(PipeCap + 1), m \in 0..(PipeCap + 1)}
  \cup {[ok |-> FALSE, out |-> <<>>, err |-> <<>>, errno |-> -2]}

SoloRuns == {1}

\* The steps of the child and of the callbacks registered on it.
RunStep(r) ==
  \/ ChildWriteOut(r)
  \/ ChildWriteErr(r)
  \/ \E x \in Exits : ChildExit(r, x.code, x.signal)
  \/ \E n \in 1..PipeCap : StdoutData(r, n)
  \/ \E n \in 1..PipeCap : StderrData(r, n)
  \/ StdoutEnd(r)
  \/ StderrEnd(r)
  \/ ChildError(r)
  \/ ChildClose(r)

\* One request and its run, the client staying connected.
Next ==
  \E r \in SoloRuns :
    \/ \E body \in RunBodies, oc \in SpawnOutcomes :
         Request(r, body, Undefined, oc)
    \/ RunStep(r)

Spec == Init /\ [][Next]_vars

\* One request and its run, with a child that fills its pipes and a client
\* that may go away.
LiveNext ==
  \E r \in SoloRuns :
    \/ \E body \in RunBodies, oc \in LiveOutcomes :
         Request(r, body, Undefined, oc)
    \/ RunStep(r)
    \/ ClientDrop(r)

\* The event loop runs every callback that is ready and the operating system
\* runs the child: no enabled step of either is put off for ever.  The client
\* need never go away.
Fairness ==
  /\ WF_vars(\E r \in SoloRuns : ChildWriteOut(r))
  /\ WF_vars(\E r \in SoloRuns : ChildWriteErr(r))
  /\ WF_vars(\E r \in SoloRuns : \E x \in Exits : ChildExit(r, x.code, x.signal))
  /\ WF_vars(\E r \in SoloRuns : \E n \in 1..PipeCap : StdoutData(r, n))
  /\ WF_vars(\E r \in SoloRuns : \E n \in 1..PipeCap : StderrData(r, n))
  /\ WF_vars(\E r \in SoloRuns : StdoutEnd(r))
  /\ WF_vars(\E r \in SoloRuns : StderrEnd(r))
  /\ WF_vars(\E r \in SoloRuns : ChildError(r))
  /\ WF_vars(\E r \in SoloRuns : ChildClose(r))

LiveSpec == Init /\ [][LiveNext]_vars /\ Fairness

\* The fields that decide the argument list: what a client may send for the
\* notification switch and template, with or without an uploaded file.
ArgBodies ==
  {[projectUrl |-> Str(<<"u">>), episodes |-> Str(<<"1", "-", "3">>),
    slackEnabled |-> s, slackTemplate |-> t] :
      s \in {Undefined, Str(<<"t", "r", "u", "e">>), Str(<<"f", "a", "l", "s", "e">>),
             Str(<<"y">>), Bool(TRUE), Bool(FALSE)},
      t \in {Undefined, Str(<<>>), Str(<<" ">>), Str(<<"t">>), Str(<<" ", "t", " ">>)}}

\* req.file: none, or the file multer stored under uploads/
GuideFiles == {Undefined, Str(<<"uploads/", "f">>)}

ArgOutcomes ==
  {[ok |-> TRUE, out |-> <<97>>, err |-> <<101>>, errno |-> 0],
   [ok |-> FALSE, out |-> <<>>, err |-> <<>>, errno |-> -2]}

\* One valid request, with every combination of the optional fields, and its
\* run.
ArgsNext ==
  \E r \in SoloRuns :
    \/ \E body \in ArgBodies, file \in GuideFiles, oc \in ArgOutcomes :
         Request(r, body, file, oc)
    \/ RunStep(r)

ArgsSpec == Init /\ [][ArgsNext]_vars

\* The client alone: the server idle, which its computations do not involve.
ServerIdle == ServerInit /\ build = "server/index.js"

\* What a user may type into an episode entry: nothing, text, numbers that
\* are not positive, a number in white space, one-digit numbers and 10.
EntryValues ==
  {<<>>, <<"a">>, <<"0">>, <<"-", "1">>, <<" ", "2", " ">>, <<"1", "0">>}
  \cup {ToDecimal(n) : n \in 1..MaxEpisode}

\* The form holds at least one entry.
EpisodeLists == SeqsUpTo(EntryValues, MaxEntries) \ {<<>>}

RangeInit ==
  /\ ServerIdle
  /\ formEpisodes \in EpisodeLists
  /\ episodesStr = <<>>
  /\ hgPc = "idle"
  /\ sent = <<>> /\ wire = <<>> /\ handled = <<>>
  /\ isLoading = FALSE
  /\ FormInit

\* The conversion of every list of entries.
RangeSpec == RangeInit /\ [][ConvertEpisodes]_vars

\* The events of a response: output events, then one terminal event.
DataFrames == {[type |-> "stdout", message |-> <<97>>],
               [type |-> "stderr", message |-> <<101>>]}
TerminalFrames ==
  {CompleteFrame(Num(0)), CompleteFrame(Num(1)), ErrorFrame("spawn conda ENOENT")}
SentStreams ==
  {ds \o <<t>> : ds \in SeqsUpTo(DataFrames, MaxFrames), t \in TerminalFrames}

\* handleGenerate has set isLoading and got the response of a run; its text
\* is on the way.
StreamInit ==
  /\ ServerIdle
  /\ formEpisodes = <<<<"1">>>>
  /\ episodesStr = <<"1">>
  /\ hgPc = "reading"
  /\ sent \in SentStreams
  /\ wire = ResponseText(sent)
  /\ handled = <<>>
  /\ isLoading = TRUE
  /\ formUrl = <<"u">>
  /\ activeMenu = "comment"
  /\ stored = Null
  /\ settings = SettingsFrom(DefaultSettings)
  /\ lastSaved = SettingsFrom(DefaultSettings)
  /\ posted = <<FormDataOf(formUrl, episodesStr, settings)>>

\* reader.read() returns the text in chunks of any sizes.
StreamNext ==
  \/ \E n \in 1..Len(wire) : ReaderRead(n)
  \/ ReaderDone

StreamSpec == StreamInit /\ [][StreamNext]_vars

\* What the user has typed when the button is pressed.
TypedUrls == {<<>>, <<" ">>, <<"u">>}
TypedEpisodes == {<<<<>>>>, <<<<"a">>, <<"0">>>>, <<<<"1">>>>, <<<<"2">>, <<"1">>>>}

\* The responses fetch may resolve with: the rejection of the server, an
\* event stream with or without a terminal event, and a JSON body.
Responses ==
  {[status |-> 400, contentType |-> "application/json", frames |-> <<>>],
   [status |-> 200, contentType |-> "application/json", frames |-> <<>>]}
  \cup {[status |-> 200, contentType |-> "text/event-stream", frames |-> fs] :
          fs \in SentStreams \cup SeqsUpTo(DataFrames, MaxFrames)}

GenerateInit ==
  /\ ServerIdle
  /\ formEpisodes \in TypedEpisodes
  /\ episodesStr = <<>>
  /\ hgPc = "idle"
  /\ sent = <<>> /\ wire = <<>> /\ handled = <<>>
  /\ isLoading = FALSE
  /\ formUrl \in TypedUrls
  /\ posted = <<>>
  /\ activeMenu = "comment"
  /\ stored = Null
  /\ settings = SettingsFrom(DefaultSettings)
  /\ lastSaved = SettingsFrom(DefaultSettings)

\* One call of handleGenerate.
GenerateNext ==
  \/ \E confirmed \in BOOLEAN : HandleGenerate(confirmed)
  \/ FetchRejects
  \/ \E response \in Responses : FetchResolves(response)
  \/ \E n \in 1..Len(wire) : ReaderRead(n)
  \/ ReaderDone
  \/ ReaderRejects

GenerateSpec == GenerateInit /\ [][GenerateNext]_vars

\* The menus of the sidebar.
MenuKeys == {"comment", "view", "settings"}

\* What is typed into an episode entry while the form is edited.
FormEntries == {<<>>, <<"1">>}

\* The form of the comment menu, edited and reset in any order.
FormNext ==
  \/ addEpisode
  \/ \E index \in 0..(EpisodeLimit - 1) : removeEpisode(index)
  \/ \E index \in 0..(EpisodeLimit - 1), value \in FormEntries :
       updateEpisode(index, value)
  \/ \E value \in TypedUrls : SetProjectUrl(value)
  \/ \E menuKey \in MenuKeys : HandleMenuClick(menuKey)

\* The client as it starts, the server idle.
ClientOnlyInit == ServerIdle /\ ClientInit

FormSpec == ClientOnlyInit /\ [][FormNext]_vars

\* The values the option inputs give: the two methods, a sheet URL or none,
\* the switch, a template with a quote and a line break.
OptionValues(key) ==
  IF key \in {"scoringMethod", "tagMethod"}
    THEN {Str(<<"f", "i", "l", "e">>), Str(<<"s", "h", "e", "e", "t">>)}
  ELSE IF key \in {"scoringSheetUrl", "tagSheetUrl"} THEN {Str(<<>>), Str(<<"s">>)}
  ELSE IF key = "slackEnabled" THEN {Bool(TRUE), Bool(FALSE)}
  ELSE {DefaultSettings.slackTemplate, Str(<<"a", "\"", "\n", "\\">>)}

\* What is typed into the number input.
TypedCounts == {<<>>, <<"0">>}

\* The options edited, saved and restored in any order.
SettingsNext ==
  \/ \E key \in SettingsKeys \ {"unreadAlertCount"} :
       \E value \in OptionValues(key) : SetOption(key, value)
  \/ \E value \in TypedCounts : SetUnreadAlertCount(value)
  \/ HandleSaveSettings
  \/ \E menuKey \in MenuKeys : HandleMenuClick(menuKey)

SettingsSpec == ClientOnlyInit /\ [][SettingsNext]_vars

\* One run, and the health probe at any moment of it.
HealthNext ==
  \/ \E r \in SoloRuns :
       \/ \E body \in RunBodies, oc \in ArgOutcomes : Request(r, body, Undefined, oc)
       \/ RunStep(r)
  \/ Healthz

HealthSpec == Init /\ [][HealthNext]_vars

BothRuns == {1, 2}

\* What the child of run r writes: run 1 writes 'a' and 'e', run 2 'b' and
\* 'f'; or the child cannot be started.
PairOutcomes(r) ==
  {[ok |-> TRUE, out |-> <<96 + r>>, err |-> <<100 + r>>, errno |-> 0],
   [ok |-> FALSE, out |-> <<>>, err |-> <<>>, errno |-> -2]}

PairBody ==
  [projectUrl |-> Str(<<"u">>), episodes |-> Str(<<"1", "-", "3">>),
   slackEnabled |-> Str(<<"t", "r", "u", "e">>), slackTemplate |-> Str(<<>>)]

\* Two requests and their runs, in any interleaving.
PairNext ==
  \E r \in BothRuns :
    \/ \E oc \in PairOutcomes(r) : Request(r, PairBody, Undefined, oc)
    \/ RunStep(r)

PairSpec == Init /\ [][PairNext]_vars

\* ------------------------------------------------------------ the claims
Frames(r)    == Written(res[r].log)
Terminals(r) == SelectSeq(Frames(r), IsTerminal)
StdoutFrames(r) == SelectSeq(Frames(r), LAMBDA f : f.type = "stdout")
StderrFrames(r) == SelectSeq(Frames(r), LAMBDA f : f.type = "stderr")
LastFrame(r) == Frames(r)[Len(Frames(r))]

\* C1: a run whose request passed validation never has more than one terminal
\* event (complete or error) in its response, and has exactly one once the
\* response is ended or the child's last callback, 'close', has fired.
C1_OneTerminalEvent ==
  \A r \in Runs :
    pc[r] = "streaming" =>
      /\ Len(Terminals(r)) <= 1
      /\ (res[r].finished \/ child[r].closeEmitted) => Len(Terminals(r)) = 1

\* Both 'error' and 'close' have fired and the response holds one terminal event.
C1_Witness ==
  \E r \in Runs :
    /\ child[r].errorEmitted /\ child[r].closeEmitted
    /\ Len(Terminals(r)) = 1

\* C2: no write of a stdout or stderr event is made on the response after the
\* write of a terminal event.
C2_TerminalIsLast ==
  \A r \in Runs :
    LET log == res[r].log IN
      \A i, j \in 1..Len(log) :
        (i < j /\ log[i].op = "write" /\ IsTerminal(log[i].frame))
          => ~(log[j].op = "write" /\ IsData(log[j].frame))

\* Output of both streams has been forwarded and the terminal event follows it.
C2_Witness ==
  \E r \in Runs :
    /\ Len(StdoutFrames(r)) >= 1 /\ Len(StderrFrames(r)) >= 1
    /\ Len(Frames(r)) >= 3
    /\ IsTerminal(LastFrame(r))

\* C3: the response of a run is ended once, directly after the write of the
\* terminal event, and no write or end is made on it once it is ended.
C3_EndedOnce ==
  \A r \in Runs :
    LET log == res[r].log IN
      \A i \in 1..Len(log) :
        /\ log[i].ok
        /\ log[i].op = "end" =>
             /\ i > 1 /\ log[i - 1].op = "write" /\ IsTerminal(log[i - 1].frame)
             /\ i = Len(log)

\* C4: when the process cannot be started the response carries the error
\* event and nothing else: no stdout, stderr or complete event.
C4_SpawnFailureOnlyError ==
  \A r \in Runs :
    child[r].state = "failed" =>
      /\ \A i \in 1..Len(Frames(r)) : Frames(r)[i].type = "error"
      /\ Len(Frames(r)) <= 1
      /\ child[r].errorEmitted => Len(Frames(r)) = 1

\* The spawn failed, 'error' and 'close' have both fired.
C4_Witness ==
  \E r \in Runs :
    /\ child[r].state = "failed" /\ child[r].closeEmitted
    /\ Len(Frames(r)) = 1 /\ Frames(r)[1].type = "error"

\* C5: when the child is killed by a signal ('close' fires with code null) the
\* terminal event is of type error.
C5_SignalGivesError ==
  \A r \in Runs :
    (child[r].state = "exited" /\ child[r].exitCode = Null /\ child[r].closeEmitted)
      => (Frames(r) # <<>> /\ LastFrame(r).type = "error")

\* C6: every complete event carries the code the child closed with and
\* success = (code is 0), and a child that started and closed has one.
C6_CompleteCarriesExitCode ==
  \A r \in Runs :
    /\ \A i \in 1..Len(Frames(r)) :
         Frames(r)[i].type = "complete" =>
           /\ Frames(r)[i].exitCode = child[r].exitCode
           /\ Frames(r)[i].success = (child[r].exitCode = Num(0))
    /\ (child[r].state = "exited" /\ child[r].closeEmitted)
         => (Frames(r) # <<>> /\ LastFrame(r).type = "complete")

\* The child exited with code 2 and the response ends with
\* complete{success:false, exitCode:2}.
C6_Witness ==
  \E r \in Runs :
    /\ child[r].closeEmitted /\ child[r].exitCode = Num(2)
    /\ LastFrame(r).type = "complete"
    /\ LastFrame(r).exitCode = Num(2) /\ ~LastFrame(r).success

Messages(fs) == [i \in 1..Len(fs) |-> fs[i].message]

\* C7: when a child has written the bytes B to stdout and exited 0, the
\* messages of the stdout events, concatenated in the order written, are B,
\* however B was split into chunks, and complete{success:true, exitCode:0}
\* follows them.
C7_StdoutBytesPreserved ==
  \A r \in Runs :
    (child[r].state = "exited" /\ child[r].exitCode = Num(0) /\ child[r].closeEmitted)
      => /\ Utf8Encode(Concat(Messages(StdoutFrames(r)))) = child[r].out
         /\ LastFrame(r) = CompleteFrame(Num(0))

\* C8: every chunk read from stdout or stderr gives one event tagged with its
\* origin, and the events of one origin are in the order the chunks were read.
C8_OneFramePerChunkInOrder ==
  \A r \in Runs :
    /\ StdoutFrames(r) =
         [i \in 1..Len(outRead[r]) |->
            [type |-> "stdout", message |-> BufferToString(outRead[r][i])]]
    /\ StderrFrames(r) =
         [i \in 1..Len(errRead[r]) |->
            [type |-> "stderr", message |-> BufferToString(errRead[r][i])]]

\* Chunks of both origins have been read, two of them from stdout.
C8_Witness ==
  \E r \in Runs :
    /\ Len(outRead[r]) >= 2 /\ Len(errRead[r]) >= 1
    /\ outRead[r][1] # outRead[r][2]
    /\ Len(Frames(r)) >= 3 /\ Frames(r)[2].type = "stderr"

\* C9: a running child is never blocked for ever on a full pipe: all it has to
\* write to stdout and to stderr is accepted in the end.
C9_ChildNeverBlocked ==
  \A r \in SoloRuns :
    [](child[r].state = "running"
         => <>(child[r].outTodo = <<>> /\ child[r].errTodo = <<>>))

\* The child is blocked on a full stderr pipe and has written nothing to stdout.
C9_Witness ==
  \E r \in Runs :
    /\ child[r].state = "running"
    /\ Len(child[r].errPipe) = PipeCap /\ child[r].errTodo # <<>>
    /\ child[r].out = <<>> /\ outRead[r] = <<>>

MissingOrEmpty(x) == x = Undefined \/ x = Str(<<>>)

\* C10: a request whose projectUrl or episodes is missing or empty starts no
\* child process.
C10_InvalidNeverSpawns ==
  \A r \in Runs :
    (pc[r] # "idle" /\ (\/ MissingOrEmpty(req[r].body.projectUrl)
                        \/ MissingOrEmpty(req[r].body.episodes)))
      => (spawnCount[r] = 0 /\ child[r].state = "none")

\* A request with a projectUrl and an empty episodes was answered.
C10_Witness ==
  \E r \in Runs :
    /\ pc[r] = "rejected" /\ spawnCount[r] = 0
    /\ req[r].body.projectUrl = Str(<<"u">>)
    /\ req[r].body.episodes = Str(<<>>)

\* C11: a request that fails validation gets one response, status 400 with an
\* error body, and the response is complete: no event-stream header and no
\* frame is ever written for it, and nothing is written after the body.
C11_RejectedGetsOne400 ==
  \A r \in Runs :
    pc[r] = "rejected" =>
      /\ res[r].status = 400
      /\ res[r].contentType = "application/json"
      /\ res[r].body # ""
      /\ res[r].finished
      /\ res[r].log = <<>>

\* A request without a projectUrl was answered.
C11_Witness ==
  \E r \in Runs :
    /\ pc[r] = "rejected"
    /\ req[r].body.projectUrl = Undefined
    /\ req[r].body.episodes = Str(<<"1", "-", "3">>)
    /\ res[r].status = 400

HasNonSpace(x) == x.t = "string" /\ \E i \in 1..Len(x.v) : ~IsSpace(x.v[i])

\* C12: the argument list of every valid request is '-u' projectUrl, '-e'
\* episodes, '-g' and its value, '-s' and 'y' or 'n', and then '-t'
\* slackTemplate exactly when the template has a character that is not white
\* space; nothing else, in this order.
C12_FixedOrder ==
  \A r \in Runs :
    pc[r] = "streaming" =>
      LET a == args[r]
          t == req[r].body.slackTemplate
      IN /\ Len(a) = IF HasNonSpace(t) THEN 10 ELSE 8
         /\ a[1] = Flag("u") /\ a[2] = req[r].body.projectUrl
         /\ a[3] = Flag("e") /\ a[4] = req[r].body.episodes
         /\ a[5] = Flag("g")
         /\ a[7] = Flag("s") /\ a[8] \in {Str(<<"y">>), Str(<<"n">>)}
         /\ HasNonSpace(t) => (a[9] = Flag("t") /\ a[10] = t)

\* The position of the flag '-g' in an argument list, 0 when it has none.
GuideSlot(a) ==
  IF \E i \in 1..Len(a) : a[i] = Flag("g")
  THEN CHOOSE i \in 1..Len(a) : a[i] = Flag("g") /\ \A j \in 1..(i - 1) : a[j] # Flag("g")
  ELSE 0

\* C13: the argument list of every valid request has '-g', followed by the
\* temporary path of the uploaded file, or by 'none' when no file came.
C13_GuideSlotAlways ==
  \A r \in Runs :
    pc[r] = "streaming" =>
      LET a == args[r]
          g == GuideSlot(a)
      IN /\ g > 0 /\ g < Len(a)
         /\ a[g + 1] = IF req[r].filePath = Undefined
                       THEN Str(<<"n", "o", "n", "e">>) ELSE req[r].filePath

\* C14: the step in which the client's connection goes away while a run is
\* streaming leaves the child process as it is: the server does not kill or
\* signal it, and it goes on to write what it has to write and to exit.
C14_DropLeavesChild ==
  [][\A r \in Runs :
       (res[r].connected /\ ~res'[r].connected) => child'[r] = child[r]]_vars

\* The client has gone and the child is running with output still to write.
C14_Witness ==
  \E r \in Runs :
    /\ pc[r] = "streaming" /\ ~res[r].connected
    /\ child[r].state = "running" /\ child[r].outTodo # <<>>
    /\ Terminals(r) = <<>>

\* C15: a request that passed validation has started exactly one child
\* process, at every moment up to and after its terminal state; a request
\* that did not has started none.
C15_OneSpawn ==
  \A r \in Runs :
    /\ pc[r] = "streaming" => spawnCount[r] = 1
    /\ pc[r] \in {"idle", "rejected"} => spawnCount[r] = 0

\* The run ended with a non-zero exit code and its 'close' callback ran.
C15_Witness ==
  \E r \in Runs :
    /\ child[r].state = "exited" /\ child[r].exitCode = Num(1)
    /\ child[r].closeEmitted /\ res[r].finished
    /\ spawnCount[r] = 1

\* C16: every terminal event written to the response, complete or error, has
\* a message field and a boolean success field.
C16_TerminalHasMessageAndSuccess ==
  \A r \in Runs :
    \A i \in 1..Len(Terminals(r)) :
      LET f == Terminals(r)[i] IN
        /\ "message" \in DOMAIN f
        /\ "success" \in DOMAIN f
        /\ f.success \in BOOLEAN

\* The child of a run has finished: it could not be started, or it has exited
\* and both of its output streams have closed.
ChildFinished(r) ==
  /\ pc[r] = "streaming"
  /\ \/ child[r].state = "failed"
     \/ child[r].state = "exited" /\ child[r].outEnded /\ child[r].errEnded

\* C17: once the child of an accepted run has finished, a terminal event is
\* eventually written and the response is eventually ended.
C17_FinishedRunEndsResponse ==
  \A r \in SoloRuns :
    ChildFinished(r) ~> (res[r].finished /\ Len(Terminals(r)) >= 1)

\* The child exited with code 1, its streams closed, and the response was
\* ended after the complete event.
C17_Witness ==
  \E r \in Runs :
    /\ ChildFinished(r) /\ child[r].exitCode = Num(1)
    /\ res[r].finished
    /\ Len(Terminals(r)) = 1 /\ LastFrame(r).type = "complete"

\* What the client sees of an event: its type, and success of a complete
\* event.
Seen(frame) ==
  [type |-> frame.type, success |-> (frame.type = "complete" /\ frame.success)]

\* C18: however the text of the response is cut into chunks, when the read
\* loop ends the client has handled every event the server wrote, once and in
\* order, and has reacted to the terminal event.
C18_EveryFrameHandledOnce ==
  hgPc = "done" =>
    /\ handled = [i \in 1..Len(sent) |-> Seen(sent[i])]
    /\ ~isLoading

\* The positive integers among the entries.
KeptSet(eps) ==
  {ParseInt(Trim(eps[i])).n :
     i \in {j \in 1..Len(eps) : LET x == ParseInt(Trim(eps[j])) IN ~x.nan /\ x.n > 0}}

SetMin(S) == CHOOSE x \in S : \A y \in S : x <= y

\* The end of the maximal run of consecutive members of S that starts at a.
RECURSIVE RunEnd(_, _)
RunEnd(S, a) == IF a + 1 \in S THEN RunEnd(S, a + 1) ELSE a

\* The maximal runs of S in ascending order, 'a' or 'a-b'.
RECURSIVE RunTokens(_)
RunTokens(S) ==
  IF S = {} THEN <<>>
  ELSE LET a == SetMin(S)
           b == RunEnd(S, a)
           tok == IF a = b THEN ToDecimal(a) ELSE ToDecimal(a) \o <<"-">> \o ToDecimal(b)
       IN <<tok>> \o RunTokens(S \ (a..b))

RECURSIVE CommaJoined(_)
CommaJoined(ts) ==
  IF ts = <<>> THEN <<>>
  ELSE IF Len(ts) = 1 THEN ts[1]
  ELSE ts[1] \o <<",">> \o CommaJoined(Tail(ts))

\* C19: convertEpisodesToRange returns the maximal runs of the positive
\* integers among the entries, ascending and joined by commas, each integer
\* covered by exactly one token; 1,2,3 gives '1-3', 1,3,4,6 gives '1,3-4,6',
\* and no valid entry gives ''.
C19_MaximalRuns ==
  /\ hgPc = "converted" => episodesStr = CommaJoined(RunTokens(KeptSet(formEpisodes)))
  /\ convertEpisodesToRange(<<<<"1">>, <<"2">>, <<"3">>>>) = <<"1", "-", "3">>
  /\ convertEpisodesToRange(<<<<"1">>, <<"3">>, <<"4">>, <<"6">>>>)
       = <<"1", ",", "3", "-", "4", ",", "6">>
  /\ convertEpisodesToRange(<<<<"a">>, <<>>>>) = <<>>

\* C20: every list of entries with the same set of positive integers as the
\* entries of the form, in any order and with any repetition, is converted
\* to the string the form's entries are converted to.
C20_SameSetSameString ==
  hgPc = "converted" =>
    \A other \in EpisodeLists :
      KeptSet(other) = KeptSet(formEpisodes)
        => convertEpisodesToRange(other) = episodesStr

\* The pieces of s between the separators sep.
RECURSIVE SplitAt(_, _, _)
SplitAt(s, sep, piece) ==
  IF s = <<>> THEN <<piece>>
  ELSE IF Head(s) = sep THEN <<piece>> \o SplitAt(Tail(s), sep, <<>>)
  ELSE SplitAt(Tail(s), sep, Append(piece, Head(s)))

\* The integers a token covers, ascending: a for 'a', a..b for 'a-b'.
TokenCovers(tok) ==
  LET parts == SplitAt(tok, "-", <<>>)
      a == DigitsValue(parts[1])
      b == DigitsValue(parts[Len(parts)])
  IN [i \in 1..(b - a + 1) |-> a + i - 1]

RECURSIVE CoveredBy(_)
CoveredBy(toks) ==
  IF toks = <<>> THEN <<>> ELSE TokenCovers(Head(toks)) \o CoveredBy(Tail(toks))

\* The integers the tokens of a range string cover, token by token.
ExpandRange(str) == IF str = <<>> THEN <<>> ELSE CoveredBy(SplitAt(str, ",", <<>>))

\* C21: expanding the string convertEpisodesToRange returns into the integers
\* its tokens cover, and converting these again, returns the same string.
C21_RoundTrip ==
  hgPc = "converted" =>
    LET back == ExpandRange(episodesStr) IN
      convertEpisodesToRange([i \in 1..Len(back) |-> ToDecimal(back[i])]) = episodesStr

\* The entries 10, 2 and 1 were converted to '1-2,10'.
C21_Witness ==
  /\ hgPc = "converted"
  /\ formEpisodes = <<<<"1", "0">>, <<"2">>, <<"1">>>>
  /\ episodesStr = <<"1", "-", "2", ",", "1", "0">>
  /\ ExpandRange(episodesStr) = <<1, 2, 10>>

\* C22: when projectUrl is empty or only white space, or the entries convert
\* to the empty string, handleGenerate returns without a POST /run and with
\* isLoading false.
C22_InvalidFormNeverPosts ==
  ((\A i \in 1..Len(formUrl) : IsSpace(formUrl[i]))
     \/ convertEpisodesToRange(formEpisodes) = <<>>)
    => /\ posted = <<>>
       /\ ~isLoading
       /\ hgPc \in {"idle", "returned"}

\* handleGenerate has returned on a projectUrl of one space, with a valid
\* episode entry.
C22_Witness ==
  /\ hgPc = "returned"
  /\ formUrl = <<" ">>
  /\ formEpisodes = <<<<"1">>>>
  /\ posted = <<>>

\* C26: when handleGenerate has finished, isLoading is false, however the
\* request ended.
C26_LoadingResetAtEnd ==
  hgPc = "done" => ~isLoading

\* C23: every answer to GET /healthz is {ok: true}, and the step that gives
\* it starts no process and changes no run: neither its response nor its
\* child nor what was read from it.
C23_HealthzNoEffect ==
  [][health' # health =>
       /\ health' = Append(health, [status |-> 200,
                                     contentType |-> "application/json",
                                     ok |-> TRUE])
       /\ UNCHANGED <<pc, req, args, spawnCount, child, res, outRead, errRead>>]_vars

\* The probe was answered with a run streaming and again after the run's
\* response was ended.
C23_Witness ==
  /\ Len(health) = 2
  /\ \E r \in Runs :
       /\ pc[r] = "streaming" /\ res[r].finished
       /\ Len(Frames(r)) >= 2

\* The state of run r.
RunState(r) ==
  <<pc[r], req[r], args[r], spawnCount[r], child[r], res[r], outRead[r], errRead[r]>>

\* C27: with two runs in flight, a step that writes to or ends the response
\* of a run is a step of that run's own request or child and changes nothing
\* of the other run; the stdout and stderr events in a response carry what
\* was read from that run's own child.
C27_RunsIsolated ==
  [][\A r \in BothRuns :
       /\ res'[r] # res[r] =>
            /\ child'[r] # child[r]
            /\ \A q \in BothRuns \ {r} : RunState(q)' = RunState(q)
       /\ Messages(StdoutFrames(r))' = [i \in 1..Len(outRead'[r]) |->
                                          BufferToString(outRead'[r][i])]
       /\ Messages(StderrFrames(r))' = [i \in 1..Len(errRead'[r]) |->
                                          BufferToString(errRead'[r][i])]]_vars

\* Run 1 has ended its response while run 2 is still streaming and has
\* written its own output.
C27_Witness ==
  /\ pc[1] = "streaming" /\ pc[2] = "streaming"
  /\ res[1].finished /\ Len(Terminals(1)) = 1
  /\ ~res[2].finished /\ Len(StdoutFrames(2)) = 1
  /\ child[1].state = "exited" /\ child[2].state = "running"

\* The value that follows the flag '-s' in an argument list.
SlackValue(a) == a[(CHOOSE i \in 1..Len(a) : a[i] = Flag("s")) + 1]

\* C24: the value after '-s' is 'y' exactly when the slackEnabled received is
\* the boolean true or the string 'true', and 'n' otherwise; a request
\* without slackEnabled is launched with '-s n'.
C24_SlackFlag ==
  \A r \in Runs :
    pc[r] = "streaming" =>
      LET e == req[r].body.slackEnabled IN
      /\ \E i \in 1..(Len(args[r]) - 1) : args[r][i] = Flag("s")
      /\ SlackValue(args[r]) =
           IF e = [t |-> "boolean", v |-> <<"t", "r", "u", "e">>]
              \/ e = [t |-> "string", v |-> <<"t", "r", "u", "e">>]
           THEN Str(<<"y">>) ELSE Str(<<"n">>)
      /\ e = Undefined => SlackValue(args[r]) = Str(<<"n">>)

\* A request without slackEnabled was launched with '-s n'.
C24_Witness ==
  \E r \in Runs :
    /\ pc[r] = "streaming"
    /\ req[r].body.slackEnabled = Undefined
    /\ SlackValue(args[r]) = Str(<<"n">>)

\* C25: after any sequence of addEpisode, removeEpisode, updateEpisode and
\* menu clicks the episodes list has between 1 and 5 entries.
C25_EntriesBetween1And5 ==
  Len(formEpisodes) >= 1 /\ Len(formEpisodes) <= 5

\* The list is full and its last entry was typed.
C25_Witness ==
  Len(formEpisodes) = 5 /\ formEpisodes[5] = <<"1">> /\ formEpisodes[1] = <<>>

\* C28: a click on the settings menu after a save sets every persisted
\* option to the value it had at the save, whatever was edited since.
C28_SettingsRoundTrip ==
  [][(HandleMenuClick("settings") /\ stored.t # "null") =>
       \A k \in {"scoringMethod", "scoringSheetUrl", "tagMethod", "tagSheetUrl",
                  "slackEnabled", "slackTemplate", "unreadAlertCount"} :
         settings'[k] = lastSaved[k]]_vars

\* Settings that differ from the defaults were saved and are shown on the
\* settings menu.
C28_Witness ==
  /\ stored.t = "string"
  /\ activeMenu = "settings"
  /\ settings = lastSaved
  /\ \A k \in SettingsKeys : lastSaved[k] # SettingsFrom(DefaultSettings)[k]

====
